---- MODULE Spec2Model ----
(***************************************************************************)
(* History processors of sweagent/agent/history_processors.py.             *)
(*                                                                         *)
(* A history is a Python list of dicts.  Lists hold references, so the     *)
(* model keeps a heap of dict objects (heap[id] is the dict with identity  *)
(* id) and represents every list as a sequence of ids.  deepcopy and       *)
(* dict.copy allocate fresh objects; an assignment entry["content"] = ...  *)
(* rewrites the object in the heap and is seen through every list that     *)
(* holds its id.                                                           *)
(*                                                                         *)
(* A content string is a sequence of fragments (a rope): each fragment is  *)
(* a literal piece of text, and every newline is a fragment of its own.    *)
(* len(), splitlines(), the substring test and the two regular             *)
(* expressions are computed on that representation.                        *)
(***************************************************************************)
EXTENDS Integers, Sequences, FiniteSets, TLC

VARIABLES heap, history, call, arg, status, result, depth

vars == <<heap, history, call, arg, status, result, depth>>

-----------------------------------------------------------------------------
(* Bounds of the explored inputs *)

\* general histories: every length 0..MaxLen over EntryAlphabet
MaxLen == 3
\* observation histories: a task statement followed by ObsLen tool outputs
ObsLen == 6
\* window histories: WinLen tool outputs that render file windows
WinLen == 3
\* n of MaxNObservations ranges over 1..MaxBudget
MaxBudget == 2
\* n of LastNObservations ranges over 0..MaxWindow
MaxWindow == 3

-----------------------------------------------------------------------------
(* Text fragments *)

NL == "\n"
FailedEditMarker == "Your proposed edit has introduced new syntax error"
\* a line that starts with digits and a colon: matched by ^(\d+)\:
NumberedPrefix == "7:"
HeaderA == "[File: a (9 lines total)]"
HeaderB == "[File: b (9 lines total)]"
HeaderFragments == {HeaderA, HeaderB}
X50 == "xxxxxxxxxxxxxxxxxxxxxxxxxxxxxxxxxxxxxxxxxxxxxxxxxx"
\* 201 characters on one line: longer than the default long_output_char_thld
BigText == X50 \o X50 \o X50 \o X50 \o "x"

\* len(content)
RECURSIVE Length(_)
Length(content) ==
    IF content = <<>> THEN 0 ELSE Len(Head(content)) + Length(Tail(content))

\* len(content.splitlines())
SplitLinesCount(content) ==
    IF content = <<>> THEN 0
    ELSE Cardinality({p \in 1..Len(content) : content[p] = NL})
         + (IF content[Len(content)] = NL THEN 0 ELSE 1)

\* marker in content
ContainsMarker(content) == \E p \in 1..Len(content) : content[p] = FailedEditMarker

\* pattern.finditer(content): the start of every line that begins with
\* digits and a colon (re.MULTILINE: ^ matches at 0 and after each newline)
MatchStarts(content) ==
    {p \in 1..Len(content) :
        /\ content[p] = NumberedPrefix
        /\ (p = 1 \/ content[p - 1] = NL)}

\* the end of the match that starts at p: .*? runs lazily to the first
\* newline, which (\n|$) consumes, or to the end of the string
MatchEnd(content, p) ==
    LET nls == {q \in p..Len(content) : content[q] = NL}
    IN  IF nls = {} THEN Len(content)
        ELSE CHOOSE q \in nls : \A r \in nls : q <= r

Min(S) == CHOOSE x \in S : \A y \in S : x <= y
Max(S) == CHOOSE x \in S : \A y \in S : x >= y

\* file_pattern.search(content): the position of the first header, 0 if none.
\* Every header of the explored contents sits on a line of its own, so the
\* greedy (.*) captures exactly the file name of that header.
FileMatch(content) ==
    LET hs == {p \in 1..Len(content) : content[p] \in HeaderFragments}
    IN  IF hs = {} THEN 0 ELSE Min(hs)

\* file_match.group(1)
FileName(fragment) == IF fragment = HeaderA THEN "a" ELSE "b"

\* dict.get(key, default)
Get(entry, key, default) == IF key \in DOMAIN entry THEN entry[key] ELSE default

-----------------------------------------------------------------------------
(* Placeholders *)

FailedEditPlaceholder == <<"Output of failed edit omitted.">>

OldOutputPlaceholder(content) ==
    <<"Old output omitted (" \o ToString(SplitLinesCount(content)) \o " lines)">>

OutdatedWindowPlaceholder(k) ==
    <<"Outdated window with " \o ToString(k) \o " lines omitted...", NL>>

-----------------------------------------------------------------------------
(* Object allocation *)

\* DeepCopy without the copy: the processor works on the caller's dicts
DeepCopy_Aliased(h, list) == [heap |-> h, list |-> list]

\* copy.deepcopy(history): a new list of new dicts
DeepCopy(h, list) ==
    [heap |-> h \o [i \in 1..Len(list) |-> h[list[i]]],
     list |-> [i \in 1..Len(list) |-> Len(h) + i]]

\* entry.copy() with data["content"] = content: the new dict is the last
\* object of the returned heap
CopyWithContent(h, id, content) ==
    Append(h, [h[id] EXCEPT !.content = content])

\* entry["content"] = content, in place
SetContent(h, id, content) == [h EXCEPT ![id].content = content]

-----------------------------------------------------------------------------
(* DefaultHistoryProcessor *)

DefaultHistoryProcessor(h, list) ==
    [heap |-> h, status |-> "returned", result |-> list]

-----------------------------------------------------------------------------
(* StripFailedEdits *)

IsFailedEdit(entry) ==
    IF entry.role # "user" THEN FALSE
    ELSE IF Get(entry, "demo", FALSE) THEN FALSE
    ELSE ContainsMarker(entry.content)

ProcessEntry(h, id) ==
    IF IsFailedEdit(h[id]) THEN SetContent(h, id, FailedEditPlaceholder) ELSE h

RECURSIVE ProcessEntries(_, _, _)
ProcessEntries(h, list, i) ==
    IF i > Len(list) THEN h
    ELSE ProcessEntries(ProcessEntry(h, list[i]), list, i + 1)

\* history[:-1]
AllButLast(list) == SubSeq(list, 1, Len(list) - 1)

StripFailedEdits(h, list) ==
    LET c == DeepCopy(h, list)
    IN  IF Len(c.list) = 0
        THEN \* history[-1] of an empty list
             [heap |-> c.heap, status |-> "IndexError", result |-> <<>>]
        ELSE [heap   |-> ProcessEntries(c.heap, AllButLast(c.list), 1),
              status |-> "returned",
              result |-> AllButLast(c.list) \o <<c.list[Len(c.list)]>>]

-----------------------------------------------------------------------------
(* MaxNObservations *)

IsUserMessage(entry) == entry.role = "user" /\ ~Get(entry, "is_demo", FALSE)

StripObservation(h, id) == SetContent(h, id, OldOutputPlaceholder(h[id].content))

\* ShouldStrip with the budget comparison turned around
ShouldStrip_Inverted(n_remaining, age, n, max_age, long) ==
    (n_remaining < n \/ age > max_age) /\ long

ShouldStrip(n_remaining, age, n, max_age, long) ==
    (n_remaining > n \/ age > max_age) /\ long

MaxNStep(st, id, cfg) ==
    LET entry == st.heap[id]
        idx   == st.user_msg_idx + 1
    IN  IF entry.role # "user" \/ Get(entry, "is_demo", FALSE)
        THEN [st EXCEPT !.new_history = Append(@, id)]
        ELSE IF idx = 1
        THEN [st EXCEPT !.new_history = Append(@, id), !.user_msg_idx = idx]
        ELSE IF ShouldStrip(cfg.n_long_ums - st.n_long_added,
                            cfg.n_user_messages - idx,
                            cfg.n, cfg.max_age,
                            Length(entry.content) > cfg.thld)
        THEN [st EXCEPT !.heap = StripObservation(@, id),
                        !.new_history = Append(@, id),
                        !.user_msg_idx = idx]
        ELSE [st EXCEPT !.n_long_added = @ + 1,
                        !.new_history = Append(@, id),
                        !.user_msg_idx = idx]

RECURSIVE MaxNLoop(_, _, _, _)
MaxNLoop(st, list, i, cfg) ==
    IF i > Len(list) THEN st
    ELSE MaxNLoop(MaxNStep(st, list[i], cfg), list, i + 1, cfg)

MaxNObservations(h, list, n, max_age, thld) ==
    LET c    == DeepCopy(h, list)
        ums  == {i \in 1..Len(c.list) : IsUserMessage(c.heap[c.list[i]])}
        long == {i \in ums : Length(c.heap[c.list[i]].content) > thld}
        cfg  == [n |-> n, max_age |-> max_age, thld |-> thld,
                 n_user_messages |-> Cardinality(ums),
                 n_long_ums |-> Cardinality(long)]
        st   == MaxNLoop([heap |-> c.heap, new_history |-> <<>>,
                          user_msg_idx |-> 0, n_long_added |-> 0],
                         c.list, 1, cfg)
    IN  [heap |-> st.heap, status |-> "returned", result |-> st.new_history]

-----------------------------------------------------------------------------
(* last_n_history and LastNObservations *)

\* InLastN with the range starting one message early
InLastN_OffByOne(user_msg_idx, user_messages, n) ==
    user_msg_idx \in (user_messages - n)..user_messages

\* user_msg_idx in range(user_messages - n + 1, user_messages + 1)
InLastN(user_msg_idx, user_messages, n) ==
    user_msg_idx \in (user_messages - n + 1)..user_messages

LastNStep(st, id, user_messages, n) ==
    LET entry == st.heap[id]
        idx   == st.user_msg_idx + 1
    IN  IF entry.role # "user" \/ Get(entry, "is_demo", FALSE)
        THEN [st EXCEPT !.new_history = Append(@, id)]
        ELSE IF idx = 1 \/ InLastN(idx, user_messages, n)
        THEN [st EXCEPT !.new_history = Append(@, id), !.user_msg_idx = idx]
        ELSE [st EXCEPT
                !.heap = CopyWithContent(@, id, OldOutputPlaceholder(entry.content)),
                !.new_history = Append(@, Len(st.heap) + 1),
                !.user_msg_idx = idx]

RECURSIVE LastNLoop(_, _, _, _, _)
LastNLoop(st, list, i, user_messages, n) ==
    IF i > Len(list) THEN st
    ELSE LastNLoop(LastNStep(st, list[i], user_messages, n), list, i + 1,
                   user_messages, n)

last_n_history(h, list, n) ==
    IF n <= 0
    THEN [heap |-> h, status |-> "ValueError", result |-> <<>>]
    ELSE LET ums == {i \in 1..Len(list) : IsUserMessage(h[list[i]])}
             st  == LastNLoop([heap |-> h, new_history |-> <<>>, user_msg_idx |-> 0],
                              list, 1, Cardinality(ums), n)
         IN  [heap |-> st.heap, status |-> "returned", result |-> st.new_history]

-----------------------------------------------------------------------------
(* ClosedWindowHistoryProcessor *)

\* entry["content"][:start] + "Outdated window ..." + entry["content"][end:]
CollapseWindow(content) ==
    LET ms    == MatchStarts(content)
        start == Min(ms)
        end   == MatchEnd(content, Max(ms))
    IN  SubSeq(content, 1, start - 1)
        \o OutdatedWindowPlaceholder(Cardinality(ms))
        \o SubSeq(content, end + 1, Len(content))

\* IsOutdated that forgets which file a window shows
IsOutdated_AnyFile(file, windows) == windows # {}

IsOutdated(file, windows) == file \in windows

ClosedWindowStep(st, id) ==
    LET entry == st.heap[id]
        fm    == FileMatch(entry.content)
        file  == FileName(entry.content[fm])
    IN  IF entry.role # "user" \/ Get(entry, "is_demo", FALSE)
        THEN [st EXCEPT !.new_history = Append(@, id)]
        ELSE IF MatchStarts(entry.content) = {}
        THEN [st EXCEPT !.heap = CopyWithContent(@, id, entry.content),
                        !.new_history = Append(@, Len(st.heap) + 1)]
        ELSE IF fm = 0
        THEN \* continue: nothing is appended for this entry
             st
        ELSE [st EXCEPT
                !.heap = CopyWithContent(@, id,
                            IF IsOutdated(file, st.windows)
                            THEN CollapseWindow(entry.content)
                            ELSE entry.content),
                !.new_history = Append(@, Len(st.heap) + 1),
                !.windows = @ \cup {file}]

\* for entry in reversed(history)
RECURSIVE ClosedWindowLoop(_, _, _)
ClosedWindowLoop(st, list, i) ==
    IF i < 1 THEN st
    ELSE ClosedWindowLoop(ClosedWindowStep(st, list[i]), list, i - 1)

Reversed(list) == [i \in 1..Len(list) |-> list[Len(list) + 1 - i]]

ClosedWindowHistoryProcessor(h, list) ==
    LET st == ClosedWindowLoop([heap |-> h, new_history |-> <<>>, windows |-> {}],
                               list, Len(list))
    IN  [heap |-> st.heap, status |-> "returned", result |-> Reversed(st.new_history)]

-----------------------------------------------------------------------------
(* Composites: the outer call runs only if StripFailedEdits returned *)

Max5N == 5
Max5Age == 10
Max5Thld == 200
Last2N == 2
Last5N == 5
DefaultThld == 200

Max5ObservationsNoFE(h, list) ==
    LET s == StripFailedEdits(h, list)
    IN  IF s.status # "returned" THEN s
        ELSE MaxNObservations(s.heap, s.result, Max5N, Max5Age, Max5Thld)

Last5ObservationsNoFE(h, list) ==
    LET s == StripFailedEdits(h, list)
    IN  IF s.status # "returned" THEN s
        ELSE last_n_history(s.heap, s.result, Last5N)

-----------------------------------------------------------------------------
(* Inputs *)

Roles == {"system", "user", "assistant"}

Entry(role, content, is_demo) ==
    [role |-> role, content |-> content, is_demo |-> is_demo]

Short        == <<"x">>
Big          == <<BigText>>
FailedEdit   == <<"x", NL, FailedEditMarker, NL, "x">>
\* header, text, two numbered lines around a plain line, text after
WindowA      == <<HeaderA, NL, "x", NL, NumberedPrefix, "x", NL, "x", NL,
                  NumberedPrefix, NL, "x">>
\* a shorter window of the same file, ending in a numbered line
WindowA2     == <<HeaderA, NL, NumberedPrefix, "x">>
WindowB      == <<"x", NL, HeaderB, NL, NumberedPrefix, "x", NL>>
\* numbered lines without a header
Numbered     == <<NumberedPrefix, "x", NL, NumberedPrefix>>

EntryAlphabet ==
    {Entry("user", c, d) : c \in {Short, FailedEdit, WindowA, Numbered},
                           d \in BOOLEAN}
    \cup {Entry("assistant", c, FALSE) : c \in {Short, FailedEdit, WindowA}}
    \cup {Entry("system", Short, FALSE)}

ObsAlphabet == {Entry("user", c, FALSE) : c \in {Short, Big, FailedEdit}}

WinAlphabet ==
    {Entry("user", c, FALSE) : c \in {Short, WindowA, WindowA2, WindowB, Numbered}}

SeqsOf(S, n) == [1..n -> S]

Histories ==
    UNION {SeqsOf(EntryAlphabet, k) : k \in 0..MaxLen}
    \cup {<<Entry("user", t, FALSE)>> \o s :
             t \in {Short, Big}, s \in SeqsOf(ObsAlphabet, ObsLen)}
    \cup SeqsOf(WinAlphabet, WinLen)

MaxAges == {1, 10}
Thlds == {1, DefaultThld}

-----------------------------------------------------------------------------
(* The caller: builds a history, calls one processor on it, and may pipe   *)
(* the output of StripFailedEdits through StripFailedEdits again           *)

NoCall == [name |-> "none", n |-> 0, max_age |-> 0, thld |-> 0]

Init ==
    /\ heap \in Histories
    /\ history = [i \in 1..Len(heap) |-> i]
    /\ call = NoCall
    /\ arg = <<>>
    /\ status = "ready"
    /\ result = <<>>
    /\ depth = 0

Invoke(c, r) ==
    /\ status = "ready"
    /\ call' = c
    /\ arg' = history
    /\ heap' = r.heap
    /\ status' = r.status
    /\ result' = r.result
    /\ depth' = 1
    /\ UNCHANGED history

CallDefault ==
    Invoke([NoCall EXCEPT !.name = "DefaultHistoryProcessor"],
           DefaultHistoryProcessor(heap, history))

CallStripFailedEdits ==
    Invoke([NoCall EXCEPT !.name = "StripFailedEdits"],
           StripFailedEdits(heap, history))

CallMaxNObservations(n, max_age, thld) ==
    Invoke([name |-> "MaxNObservations", n |-> n, max_age |-> max_age, thld |-> thld],
           MaxNObservations(heap, history, n, max_age, thld))

CallLastNObservations(n) ==
    Invoke([NoCall EXCEPT !.name = "LastNObservations", !.n = n],
           last_n_history(heap, history, n))

CallLast2Observations ==
    Invoke([NoCall EXCEPT !.name = "Last2Observations", !.n = Last2N],
           last_n_history(heap, history, Last2N))

CallLast5Observations ==
    Invoke([NoCall EXCEPT !.name = "Last5Observations", !.n = Last5N],
           last_n_history(heap, history, Last5N))

CallMax5ObservationsNoFE ==
    Invoke([name |-> "Max5ObservationsNoFE", n |-> Max5N, max_age |-> Max5Age,
            thld |-> Max5Thld],
           Max5ObservationsNoFE(heap, history))

CallLast5ObservationsNoFE ==
    Invoke([NoCall EXCEPT !.name = "Last5ObservationsNoFE", !.n = Last5N],
           Last5ObservationsNoFE(heap, history))

CallClosedWindow ==
    Invoke([NoCall EXCEPT !.name = "ClosedWindowHistoryProcessor"],
           ClosedWindowHistoryProcessor(heap, history))

\* StripFailedEdits()(StripFailedEdits()(history))
PipeStripFailedEdits ==
    /\ status = "returned"
    /\ depth = 1
    /\ call.name = "StripFailedEdits"
    /\ LET r == StripFailedEdits(heap, result)
       IN  /\ heap' = r.heap
           /\ status' = r.status
           /\ result' = r.result
    /\ arg' = result
    /\ depth' = 2
    /\ UNCHANGED <<history, call>>

Next ==
    \/ CallDefault
    \/ CallStripFailedEdits
    \/ \E n \in 1..MaxBudget, max_age \in MaxAges, thld \in Thlds :
          CallMaxNObservations(n, max_age, thld)
    \/ \E n \in 0..MaxWindow : CallLastNObservations(n)
    \/ CallLast2Observations
    \/ CallLast5Observations
    \/ CallMax5ObservationsNoFE
    \/ CallLast5ObservationsNoFE
    \/ CallClosedWindow
    \/ PipeStripFailedEdits

Spec == Init /\ [][Next]_vars

-----------------------------------------------------------------------------
(* Vocabulary of the properties.  arg is the list passed to the last call  *)
(* and result the list it returned; In(i) and Out(i) are the dicts at      *)
(* position i of the two lists.                                            *)

In(i) == heap[arg[i]]
Out(i) == heap[result[i]]

NonDemoUser(entry) == entry.role = "user" /\ ~entry.is_demo

\* 1-based rank of position i among the non-demo user entries of arg
UserIdx(i) == Cardinality({j \in 1..i : NonDemoUser(In(j))})
UserTotal == UserIdx(Len(arg))

\* a tool output: a non-demo user entry after the task statement
Observation(i) == NonDemoUser(In(i)) /\ UserIdx(i) > 1

Verbatim(i) == Out(i).content = In(i).content

LastNNames == {"LastNObservations", "Last2Observations", "Last5Observations"}

-----------------------------------------------------------------------------
\* C1: every strategy returns, for every history (the empty one and one with
\* a headerless numbered entry included), a list as long as its input whose
\* roles are the input's roles position by position.
C1_LengthAndRolesPreserved ==
    status \notin {"ready", "ValueError"} =>
        /\ status = "returned"
        /\ Len(result) = Len(arg)
        /\ \A i \in 1..Len(arg) : Out(i).role = In(i).role

\* C2: the task statement (first non-demo user entry), every demo entry and
\* every entry whose role is not user keep their content under every strategy.
C2_ProtectedEntriesUnchanged ==
    (status = "returned" /\ Len(result) = Len(arg)) =>
        \A i \in 1..Len(arg) :
            (\/ In(i).role # "user"
             \/ In(i).is_demo
             \/ (NonDemoUser(In(i)) /\ UserIdx(i) = 1))
            => Verbatim(i)

\* C3: no call, returning or raising, changes the caller's list or any dict
\* that existed before the call; content is only ever rewritten on dicts the
\* call itself allocated.
C3_InputNotMutated ==
    [][/\ history' = history
       /\ Len(heap') >= Len(heap)
       /\ \A k \in 1..Len(heap) : heap'[k] = heap[k]]_vars

\* C3 witness: a call returned a list in which some content was rewritten.
C3_Witness ==
    /\ status = "returned"
    /\ Len(result) = Len(arg)
    /\ \E i \in 1..Len(arg) : ~Verbatim(i)

\* C4: MaxNObservations(n, ...) leaves at most n long tool outputs verbatim.
C4_AtMostNLongKept ==
    (status = "returned" /\ call.name = "MaxNObservations") =>
        Cardinality({i \in 1..Len(arg) :
                        /\ Observation(i)
                        /\ Length(In(i).content) > call.thld
                        /\ Verbatim(i)}) <= call.n

\* positions whose content the returned record r rewrote, for input arg
Suppressed(r) ==
    {i \in 1..Len(arg) : r.heap[r.result[i]].content # In(i).content}

\* C5: with max_age and the threshold fixed, the entries MaxNObservations
\* suppresses shrink as the budget grows: what budget n suppresses is
\* suppressed by every n1 <= n, and what any n2 >= n suppresses is suppressed
\* by n.
C5_MonotonicBudget ==
    (status = "returned" /\ call.name = "MaxNObservations") =>
        /\ \A n1 \in 0..call.n :
              {i \in 1..Len(arg) : ~Verbatim(i)} \subseteq
                Suppressed(MaxNObservations(heap, arg, n1, call.max_age, call.thld))
        /\ \A n2 \in call.n..(MaxBudget + 1) :
              Suppressed(MaxNObservations(heap, arg, n2, call.max_age, call.thld))
                \subseteq {i \in 1..Len(arg) : ~Verbatim(i)}

\* C5 witness: a call whose budget matters: a larger budget suppresses
\* strictly fewer entries.
C5_Witness ==
    /\ status = "returned"
    /\ call.name = "MaxNObservations"
    /\ \E n2 \in call.n..(MaxBudget + 1) :
          /\ Suppressed(MaxNObservations(heap, arg, n2, call.max_age, call.thld))
                # {i \in 1..Len(arg) : ~Verbatim(i)}
          /\ Suppressed(MaxNObservations(heap, arg, n2, call.max_age, call.thld))
                # {}

\* C6: last_n_history with n >= 1 keeps the first and the last n non-demo
\* user entries, replaces the content of every other non-demo user entry by
\* 'Old output omitted (<k> lines)' with k the line count of the original,
\* and changes nothing else.
C6_LastNKeepsFirstAndTail ==
    (status = "returned" /\ call.name \in LastNNames) =>
        /\ Len(result) = Len(arg)
        /\ \A i \in 1..Len(arg) :
              IF Observation(i) /\ UserIdx(i) <= UserTotal - call.n
              THEN Out(i) = [In(i) EXCEPT !.content =
                        <<"Old output omitted ("
                          \o ToString(SplitLinesCount(In(i).content))
                          \o " lines)">>]
              ELSE Out(i) = In(i)

\* C6 witness: a call replaced a multi-line output and kept the last one.
C6_Witness ==
    /\ status = "returned"
    /\ call.name \in LastNNames
    /\ \E i \in 1..Len(arg) :
          /\ ~Verbatim(i)
          /\ SplitLinesCount(In(i).content) > 1
    /\ Observation(Len(arg)) /\ Verbatim(Len(arg))

\* C7: StripFailedEdits is idempotent on every history, the empty one
\* included: it returns, and applied to its own output it returns an equal
\* list.
C7_StripFailedEditsIdempotent ==
    (call.name = "StripFailedEdits" /\ status # "ready") =>
        /\ status = "returned"
        /\ depth = 2 =>
              /\ Len(result) = Len(arg)
              /\ \A i \in 1..Len(arg) : Out(i) = In(i)

\* a non-demo user entry that renders a window: numbered lines and a header
Rendering(i) ==
    /\ NonDemoUser(In(i))
    /\ MatchStarts(In(i).content) # {}
    /\ FileMatch(In(i).content) # 0

RenderedFile(i) == FileName(In(i).content[FileMatch(In(i).content)])

\* position in the output of the entry at position i of the input: the
\* entries before it that the processor left out no longer count
OutputPosition(i) ==
    i - Cardinality({j \in 1..(i - 1) :
                        /\ NonDemoUser(In(j))
                        /\ MatchStarts(In(j).content) # {}
                        /\ FileMatch(In(j).content) = 0})

\* C8: per file, ClosedWindowHistoryProcessor leaves the last rendering
\* unchanged and in every earlier one replaces the span from the first to the
\* last numbered line by 'Outdated window with <k> lines omitted...', keeping
\* the text before and after; renderings of other files play no part.
C8_NewestWindowPerFile ==
    (status = "returned" /\ call.name = "ClosedWindowHistoryProcessor") =>
        \A i \in 1..Len(arg) :
            Rendering(i) =>
                LET c     == In(i).content
                    ms    == MatchStarts(c)
                    first == Min(ms)
                    last  == MatchEnd(c, Max(ms))
                    later == \E j \in (i + 1)..Len(arg) :
                                Rendering(j) /\ RenderedFile(j) = RenderedFile(i)
                IN  /\ OutputPosition(i) <= Len(result)
                    /\ heap[result[OutputPosition(i)]].content =
                          IF later
                          THEN SubSeq(c, 1, first - 1)
                               \o <<"Outdated window with "
                                    \o ToString(Cardinality(ms))
                                    \o " lines omitted...", NL>>
                               \o SubSeq(c, last + 1, Len(c))
                          ELSE c

\* C8 witness: an old window of one file was collapsed although the entry
\* after it renders another file, whose window stays.
C8_Witness ==
    /\ status = "returned"
    /\ call.name = "ClosedWindowHistoryProcessor"
    /\ Len(arg) = Len(result)
    /\ \E i, j, k \in 1..Len(arg) :
          /\ i < j /\ j < k
          /\ Rendering(i) /\ Rendering(j) /\ Rendering(k)
          /\ RenderedFile(i) = RenderedFile(k)
          /\ RenderedFile(j) # RenderedFile(i)
          /\ ~Verbatim(i) /\ Verbatim(j) /\ Verbatim(k)

\* C9: MaxNObservations follows the reverse framing of its docstring: a long
\* tool output is kept iff fewer than n long outputs after it were kept and
\* its age is at most max_age; short outputs are always kept.
C9_ReverseFraming ==
    (status = "returned" /\ call.name = "MaxNObservations") =>
        \A i \in 1..Len(arg) :
            Observation(i) =>
                IF Length(In(i).content) > call.thld
                THEN Verbatim(i) <=>
                        /\ Cardinality({j \in (i + 1)..Len(arg) :
                                           /\ Observation(j)
                                           /\ Length(In(j).content) > call.thld
                                           /\ Verbatim(j)}) < call.n
                        /\ UserTotal - UserIdx(i) <= call.max_age
                ELSE Verbatim(i)

\* a failed edit: a non-demo user entry whose content holds the marker
FailedEditAt(i) == NonDemoUser(In(i)) /\ ContainsMarker(In(i).content)

\* C10: StripFailedEdits keeps the chronologically last failed edit, wherever
\* it sits, and replaces every earlier one by the placeholder.
C10_LastFailedEditKept ==
    (status = "returned" /\ call.name = "StripFailedEdits" /\ depth = 1) =>
        \A i \in 1..Len(arg) :
            FailedEditAt(i) =>
                Out(i).content =
                    IF \E j \in (i + 1)..Len(arg) : FailedEditAt(j)
                    THEN <<"Output of failed edit omitted.">>
                    ELSE In(i).content

====
